---- MODULE Spec2Model ----
(***************************************************************************)
(* Model of the two scripts of folium_offline:                             *)
(*   folium_offline.py       set_offline / set_online / set_mbtiles, main  *)
(*   build_simple_server.py  subprocess.call(["pyinstaller", ...])         *)
(*                                                                         *)
(* Strings are sequences of chunks.  A chunk is a piece of text; the path  *)
(* separator "/" is always a chunk of its own, so that os.path.join can    *)
(* look at the last chunk of its left argument and the first chunk of its  *)
(* right argument the way the Python function looks at characters.         *)
(***************************************************************************)
EXTENDS Integers, Sequences, FiniteSets, TLC

VARIABLES
    prog,          \* which entry point runs: "import", "main" or "build"
    pc,            \* position in the running script
    default_js,    \* folium.folium._default_js
    default_css,   \* folium.folium._default_css
    template,      \* folium.raster_layers.TileLayer._template
    trace,         \* the calls made so far, in order
    offline,       \* main(): offline flag
    mbtiles,       \* main(): mbtiles flag
    tile_set,      \* main(): tile_set
    m,             \* main(): the folium.Map instance, NoMap before construction
    files,         \* the working directory: file name -> content
    returncode,    \* build script: what subprocess.call returned or raised
    exit_status    \* exit status of the script, NotExited while it runs

vars == << prog, pc, default_js, default_css, template, trace, offline, mbtiles,
           tile_set, m, files, returncode, exit_status >>

\* ------------------------------------------------------------------ bounds
\* Longest sequence of setter calls made by an importing program.
MaxCalls == 3
\* Largest exit status the packager process is given in the model.
MaxReturnCode == 2

\* ------------------------------------------------------- program constants
MinZoom == 0
MaxZoom == 16
ZoomStart == 4
\* The map centre in microdegrees (33.718651, -116.218178).
LocationLat == 33718651
LocationLon == -116218178

\* ----------------------------------------------------------------- strings
Sep == "/"

RECURSIVE Flatten(_)
Flatten(ss) == IF ss = << >> THEN << >> ELSE Head(ss) \o Flatten(Tail(ss))

\* sub occurs in s as a contiguous run of chunks.
Contains(s, sub) ==
    \E i \in 1..(Len(s) - Len(sub) + 1) : SubSeq(s, i, i + Len(sub) - 1) = sub

\* os.path.join(a, b) on a POSIX system.
Join(a, b) ==
    IF b # << >> /\ Head(b) = Sep THEN b
    ELSE IF a = << >> \/ a[Len(a)] = Sep THEN a \o b
    ELSE a \o << Sep >> \o b

\* os.path.join(a, b, c)
Join3(a, b, c) == Join(Join(a, b), c)

IsRemoteURL(s) == s # << >> /\ Head(s) \in {"https://", "http://"}

\* Directories an importing program passes as file_path.
FilePaths ==
    { << "offline" >>,
      << "offline", Sep >>,
      << >>,
      << Sep, "srv", Sep, "offline" >> }

\* ------------------------------------------------- the patched library state
\* An asset list is a sequence of << name, path-or-URL >> pairs.
Asset(name, path) == << name, path >>

\* folium's own lists, as they are before any setter has run: every entry is
\* a CDN URL and there is no "mbtiles" entry.
LibraryDefaultJs ==
    << Asset("leaflet", << "https://", "cdn.jsdelivr.net/npm/leaflet@1.5.1/dist/leaflet.js" >>),
       Asset("jquery", << "https://", "code.jquery.com/jquery-1.12.4.min.js" >>),
       Asset("bootstrap", << "https://", "maxcdn.bootstrapcdn.com/bootstrap/3.2.0/js/bootstrap.min.js" >>),
       Asset("awesome_markers", << "https://", "cdnjs.cloudflare.com/ajax/libs/Leaflet.awesome-markers/2.0.2/leaflet.awesome-markers.js" >>) >>

LibraryDefaultCss ==
    << Asset("leaflet_css", << "https://", "cdn.jsdelivr.net/npm/leaflet@1.5.1/dist/leaflet.css" >>),
       Asset("bootstrap_css", << "https://", "maxcdn.bootstrapcdn.com/bootstrap/3.2.0/css/bootstrap.min.css" >>),
       Asset("bootstrap_theme_css", << "https://", "maxcdn.bootstrapcdn.com/bootstrap/3.2.0/css/bootstrap-theme.min.css" >>),
       Asset("awesome_markers_font_css", << "https://", "maxcdn.bootstrapcdn.com/font-awesome/4.6.3/css/font-awesome.min.css" >>),
       Asset("awesome_markers_css", << "https://", "cdnjs.cloudflare.com/ajax/libs/Leaflet.awesome-markers/2.0.2/leaflet.awesome-markers.css" >>),
       Asset("awesome_rotate_css", << "https://", "rawcdn.githack.com/python-visualization/folium/master/folium/templates/leaflet.awesome.rotate.css" >>) >>

\* A template is a sequence of chunks; the chunks in Placeholders are
\* substituted when the template is rendered, the others are emitted as is.
Placeholders ==
    { "{{this.get_name()}}", "{{this.tiles|tojson}}", "{{this.options|tojson}}",
      "{{this._parent.get_name()}}" }

TileLayerTemplate(constructor) ==
    << "var ", "{{this.get_name()}}", " = ", constructor, "(",
       "{{this.tiles|tojson}}", ",", "{{this.options|tojson}}",
       ")", ".addTo(", "{{this._parent.get_name()}}", ");" >>

\* folium's own TileLayer template, which calls L.tileLayer.
LibraryDefaultTemplate == TileLayerTemplate("L.tileLayer")

\* The template set_mbtiles installs.
MbtilesTemplate == TileLayerTemplate("L.tileLayer.mbTiles")

\* -------------------------------------------------------------- set_offline
OfflineJs(file_path) ==
    << Asset("leaflet", Join(file_path, << "leaflet.js" >>)),
       Asset("jquery", Join(file_path, << "jquery-1.12.4.min.js" >>)),
       Asset("bootstrap", Join(file_path, << "bootstrap.min.js" >>)),
       Asset("awesome_markers", Join(file_path, << "leaflet.awesome-markers.js" >>)),
       Asset("sql", Join(file_path, << "sql.js" >>)),
       Asset("sql-wasm", Join(file_path, << "sql-wasm.js" >>)),
       Asset("sql-asm", Join(file_path, << "sql-adm.js" >>)),
       Asset("mbtiles", Join(file_path, << "Leaflet.TileLayer.MBTiles.js" >>)) >>

OfflineCss(file_path) ==
    << Asset("leaflet_css", Join(file_path, << "leaflet.css" >>)),
       Asset("bootstrap_css", Join(file_path, << "bootstrap.min.css" >>)),
       Asset("bootstrap_theme_css", Join(file_path, << "bootstrap-theme.min.css" >>)),
       Asset("awesome_markers_font_css", Join(file_path, << "font-awesome.min.css" >>)),
       Asset("awesome_markers_css", Join(file_path, << "leaflet.awesome-markers.css" >>)),
       Asset("awesome_rotate_css", Join(file_path, << "leaflet.awesome.rotate.css" >>)) >>

\* Variant: a set_offline that also puts the library's template back.
SetOffline_TouchesTemplate(file_path) ==
    /\ default_js' = OfflineJs(file_path)
    /\ default_css' = OfflineCss(file_path)
    /\ template' = LibraryDefaultTemplate

SetOffline(file_path) ==
    /\ default_js' = OfflineJs(file_path)
    /\ default_css' = OfflineCss(file_path)
    /\ UNCHANGED template

\* --------------------------------------------------------------- set_online
\* Variant: the online list without the local "mbtiles" entry.
OnlineJs_NoMbtiles(file_path) ==
    << Asset("leaflet", << "https://", "cdn.jsdelivr.net/npm/leaflet@1.5.1/dist/leaflet.js" >>),
       Asset("jquery", << "https://", "code.jquery.com/jquery-1.12.4.min.js" >>),
       Asset("bootstrap", << "https://", "maxcdn.bootstrapcdn.com/bootstrap/3.2.0/js/bootstrap.min.js" >>),
       Asset("awesome_markers", << "https://", "cdnjs.cloudflare.com/ajax/libs/Leaflet.awesome-markers/2.0.2/leaflet.awesome-markers.js" >>),
       Asset("sql", << "https://", "unpkg.com/sql.js@0.3.2/js/sql.js" >>) >>

OnlineJs(file_path) ==
    << Asset("leaflet", << "https://", "cdn.jsdelivr.net/npm/leaflet@1.5.1/dist/leaflet.js" >>),
       Asset("jquery", << "https://", "code.jquery.com/jquery-1.12.4.min.js" >>),
       Asset("bootstrap", << "https://", "maxcdn.bootstrapcdn.com/bootstrap/3.2.0/js/bootstrap.min.js" >>),
       Asset("awesome_markers", << "https://", "cdnjs.cloudflare.com/ajax/libs/Leaflet.awesome-markers/2.0.2/leaflet.awesome-markers.js" >>),
       Asset("sql", << "https://", "unpkg.com/sql.js@0.3.2/js/sql.js" >>),
       Asset("mbtiles", Join(file_path, << "Leaflet.TileLayer.MBTiles.js" >>)) >>

\* Variant: a set_online that also puts the library's template back.
SetOnline_RestoresTemplate(file_path) ==
    /\ default_js' = OnlineJs(file_path)
    /\ template' = LibraryDefaultTemplate
    /\ UNCHANGED default_css

\* set_online assigns folium.folium._default_js only.
SetOnline(file_path) ==
    /\ default_js' = OnlineJs(file_path)
    /\ UNCHANGED << default_css, template >>

\* -------------------------------------------------------------- set_mbtiles
\* Variant: a template that still calls L.tileLayer.
SetMbtiles_KeepsConstructor ==
    /\ template' = TileLayerTemplate("L.tileLayer")
    /\ UNCHANGED << default_js, default_css >>

SetMbtiles ==
    /\ template' = MbtilesTemplate
    /\ UNCHANGED << default_js, default_css >>

\* The calls recorded in trace.
Call(op, arg) == [op |-> op, arg |-> arg]

\* ---------------------------------------------------------------- rendering
DQ == "\""

\* One chunk of a string as the tojson filter writes it inside a JSON string.
EscapeChunk(c) ==
    IF c = DQ THEN << "\\", DQ >>
    ELSE IF c = "\\" THEN << "\\", "\\" >>
    ELSE IF c = "<" THEN << "\\u003c" >>
    ELSE IF c = ">" THEN << "\\u003e" >>
    ELSE IF c = "&" THEN << "\\u0026" >>
    ELSE IF c = "'" THEN << "\\u0027" >>
    ELSE << c >>

\* {{ s|tojson }} for a string s.
ToJsonString(s) ==
    << DQ >> \o Flatten([i \in 1..Len(s) |-> EscapeChunk(s[i])]) \o << DQ >>

\* {{ this.options|tojson }} for a tile layer's options.
ToJsonOptions(options) ==
    << "{", "attribution: " >> \o ToJsonString(options.attribution)
    \o << ", ", "maxZoom: ", ToString(options.maxZoom),
          ", ", "minZoom: ", ToString(options.minZoom), "}" >>

\* What one chunk of a template becomes for a tile layer.
Substitute(chunk, layer) ==
    IF chunk = "{{this.get_name()}}" THEN << layer.name >>
    ELSE IF chunk = "{{this.tiles|tojson}}" THEN ToJsonString(layer.tiles)
    ELSE IF chunk = "{{this.options|tojson}}" THEN ToJsonOptions(layer.options)
    ELSE IF chunk = "{{this._parent.get_name()}}" THEN << layer.parent >>
    ELSE << chunk >>

\* The script macro of a TileLayer template rendered for a layer.
Render(tmpl, layer) ==
    Flatten([i \in 1..Len(tmpl) |-> Substitute(tmpl[i], layer)])

ScriptTag(asset) == << "<script src=" >> \o ToJsonString(asset[2]) \o << "></script>" >>

LinkTag(asset) == << "<link rel=stylesheet href=" >> \o ToJsonString(asset[2]) \o << "/>" >>

\* The page folium renders for a map: the asset lists and the tile-layer
\* template are read when the page is rendered, not when the map is built.
Html(map, js, css, tmpl) ==
    Flatten([i \in 1..Len(js) |-> ScriptTag(js[i])])
    \o Flatten([i \in 1..Len(css) |-> LinkTag(css[i])])
    \o << "var ", map.name, " = L.map(", "center: ",
          ToString(map.location[1]), ",", ToString(map.location[2]),
          "zoom: ", ToString(map.zoom_start), ");" >>
    \o Render(tmpl, map.layer)

\* ------------------------------------------------------------------- main()
offline_file_path == << "offline" >>
data_file_path == << "data" >>
attr == << "e.g. OpenStreetMap contributors" >>

\* The two values of tile_set the source gives.
TileSets ==
    { << "your_tiles.mbtiles" >>,
      << "tiles", Sep, "{z}", Sep, "{x}", Sep, "{y}.png" >> }

tile_path == Join3(data_file_path, << "tiles" >>, tile_set)

NoMap == [name |-> "none"]

\* folium.Map(location, tiles, attr, min_zoom, max_zoom, zoom_start, control_scale)
Map(location, tiles, attribution, min_zoom, max_zoom, zoom_start, control_scale) ==
    [ name |-> "map_1",
      location |-> location,
      zoom_start |-> zoom_start,
      control_scale |-> control_scale,
      layer |-> [ name |-> "tile_layer_1",
                  tiles |-> tiles,
                  options |-> [ attribution |-> attribution,
                                minZoom |-> min_zoom,
                                maxZoom |-> max_zoom ],
                  parent |-> "map_1" ] ]

NoFiles == [f \in {} |-> << >>]

\* A directory that already holds an index.html from an earlier run.
StaleFiles == [f \in {"index.html"} |-> << "stale" >>]

\* Variant: the page written under another name.
Save_OtherName(outfile) ==
    files' = [f \in DOMAIN files \cup {"map.html"} |->
                 IF f = "map.html" THEN Html(m, default_js, default_css, template)
                 ELSE files[f]]

\* m.save(outfile): writes the rendered page, replacing any file of that name.
Save(outfile) ==
    files' = [f \in DOMAIN files \cup {outfile} |->
                 IF f = outfile THEN Html(m, default_js, default_css, template)
                 ELSE files[f]]

\* Variant: the offline flag read the wrong way round.
MainSetAssets_FlagInverted ==
    /\ prog = "main" /\ pc = "assets"
    /\ IF offline
         THEN /\ SetOnline(offline_file_path)
              /\ trace' = Append(trace, Call("set_online", offline_file_path))
         ELSE /\ SetOffline(offline_file_path)
              /\ trace' = Append(trace, Call("set_offline", offline_file_path))
    /\ pc' = "mbtiles"
    /\ UNCHANGED << prog, offline, mbtiles, tile_set, m, files, returncode, exit_status >>

\* if offline: set_offline(offline_file_path) else: set_online(offline_file_path)
MainSetAssets ==
    /\ prog = "main" /\ pc = "assets"
    /\ IF offline
         THEN /\ SetOffline(offline_file_path)
              /\ trace' = Append(trace, Call("set_offline", offline_file_path))
         ELSE /\ SetOnline(offline_file_path)
              /\ trace' = Append(trace, Call("set_online", offline_file_path))
    /\ pc' = "mbtiles"
    /\ UNCHANGED << prog, offline, mbtiles, tile_set, m, files, returncode, exit_status >>

\* if mbtiles: set_mbtiles()
MainSetMbtiles ==
    /\ prog = "main" /\ pc = "mbtiles"
    /\ IF mbtiles
         THEN /\ SetMbtiles
              /\ trace' = Append(trace, Call("set_mbtiles", << >>))
         ELSE UNCHANGED << default_js, default_css, template, trace >>
    /\ pc' = "map"
    /\ UNCHANGED << prog, offline, mbtiles, tile_set, m, files, returncode, exit_status >>

\* m = folium.Map(...)
MainMakeMap ==
    /\ prog = "main" /\ pc = "map"
    /\ m' = Map(<< LocationLat, LocationLon >>, tile_path, attr,
                MinZoom, MaxZoom, ZoomStart, TRUE)
    /\ trace' = Append(trace, Call("Map", tile_path))
    /\ pc' = "save"
    /\ UNCHANGED << prog, default_js, default_css, template, offline, mbtiles,
                    tile_set, files, returncode, exit_status >>

\* m.save('index.html'), after which main() returns and the script exits.
MainSave ==
    /\ prog = "main" /\ pc = "save"
    /\ Save("index.html")
    /\ trace' = Append(trace, Call("save", << "index.html" >>))
    /\ pc' = "done"
    /\ exit_status' = << 0 >>
    /\ UNCHANGED << prog, default_js, default_css, template, offline, mbtiles,
                    tile_set, m, returncode >>

\* ------------------------------------------- the setters called by an importer
CallSetOffline(file_path) ==
    /\ prog = "import" /\ Len(trace) < MaxCalls
    /\ SetOffline(file_path)
    /\ trace' = Append(trace, Call("set_offline", file_path))
    /\ UNCHANGED << prog, pc, offline, mbtiles, tile_set, m, files, returncode, exit_status >>

CallSetOnline(file_path) ==
    /\ prog = "import" /\ Len(trace) < MaxCalls
    /\ SetOnline(file_path)
    /\ trace' = Append(trace, Call("set_online", file_path))
    /\ UNCHANGED << prog, pc, offline, mbtiles, tile_set, m, files, returncode, exit_status >>

CallSetMbtiles ==
    /\ prog = "import" /\ Len(trace) < MaxCalls
    /\ SetMbtiles
    /\ trace' = Append(trace, Call("set_mbtiles", << >>))
    /\ UNCHANGED << prog, pc, offline, mbtiles, tile_set, m, files, returncode, exit_status >>

\* --------------------------------------------------- build_simple_server.py
NoReturn == [kind |-> "none"]

\* What running the packager can come to: it cannot be started, or it runs
\* and exits with a status.
PackagerOutcomes ==
    { [kind |-> "raised", exc |-> "FileNotFoundError"] }
    \cup { [kind |-> "returned", code |-> c] : c \in 0..MaxReturnCode }

\* subprocess.call([...]): returns the packager's exit status; an exception
\* from starting it is not caught and ends the script with status 1.
BuildCall ==
    /\ prog = "build" /\ pc = "call"
    /\ \E outcome \in PackagerOutcomes :
         /\ returncode' = outcome
         /\ IF outcome.kind = "raised"
              THEN pc' = "done" /\ exit_status' = << 1 >>
              ELSE pc' = "end" /\ UNCHANGED exit_status
    /\ UNCHANGED << prog, default_js, default_css, template, trace, offline,
                    mbtiles, tile_set, m, files >>

\* The value subprocess.call returned is dropped and the module ends.
BuildEnd ==
    /\ prog = "build" /\ pc = "end"
    /\ pc' = "done"
    /\ exit_status' = << 0 >>
    /\ UNCHANGED << prog, default_js, default_css, template, trace, offline,
                    mbtiles, tile_set, m, files, returncode >>

\* ------------------------------------------------------------ specification
\* The library state is folium's own in every case.  main() starts with the
\* parameters set at its top; the flags and tile_set range over their values.
Init ==
    /\ prog \in {"import", "main", "build"}
    /\ pc = (IF prog = "main" THEN "assets" ELSE IF prog = "build" THEN "call" ELSE "idle")
    /\ default_js = LibraryDefaultJs
    /\ default_css = LibraryDefaultCss
    /\ template = LibraryDefaultTemplate
    /\ trace = << >>
    /\ offline \in (IF prog = "main" THEN BOOLEAN ELSE {TRUE})
    /\ mbtiles \in (IF prog = "main" THEN BOOLEAN ELSE {TRUE})
    /\ tile_set \in (IF prog = "main" THEN TileSets ELSE {<< "your_tiles.mbtiles" >>})
    /\ m = NoMap
    /\ files \in (IF prog = "main" THEN {NoFiles, StaleFiles} ELSE {NoFiles})
    /\ returncode = NoReturn
    /\ exit_status = << >>

Next ==
    \/ \E file_path \in FilePaths : CallSetOffline(file_path)
    \/ \E file_path \in FilePaths : CallSetOnline(file_path)
    \/ CallSetMbtiles
    \/ MainSetAssets
    \/ MainSetMbtiles
    \/ MainMakeMap
    \/ MainSave
    \/ BuildCall
    \/ BuildEnd

Spec == Init /\ [][Next]_vars

\* ------------------------------------------------------------------ claims
Last == trace[Len(trace)]

\* The call op has just returned.
AfterCall(op) == trace # << >> /\ Last.op = op

Called(op) == \E i \in 1..Len(trace) : trace[i].op = op

\* The file each named entry is expected to point at.
ExpectedJsFiles ==
    << << "leaflet", "leaflet.js" >>,
       << "jquery", "jquery-1.12.4.min.js" >>,
       << "bootstrap", "bootstrap.min.js" >>,
       << "awesome_markers", "leaflet.awesome-markers.js" >>,
       << "sql", "sql.js" >>,
       << "sql-wasm", "sql-wasm.js" >>,
       << "sql-asm", "sql-asm.js" >>,
       << "mbtiles", "Leaflet.TileLayer.MBTiles.js" >> >>

ExpectedCssFiles ==
    << << "leaflet_css", "leaflet.css" >>,
       << "bootstrap_css", "bootstrap.min.css" >>,
       << "bootstrap_theme_css", "bootstrap-theme.min.css" >>,
       << "awesome_markers_font_css", "font-awesome.min.css" >>,
       << "awesome_markers_css", "leaflet.awesome-markers.css" >>,
       << "awesome_rotate_css", "leaflet.awesome.rotate.css" >> >>

\* dir joined with a file name, written out: nothing for the empty string,
\* no second separator after a trailing one.
Under(dir, file) ==
    IF dir = << >> THEN << file >>
    ELSE IF dir[Len(dir)] = Sep THEN dir \o << file >>
    ELSE dir \o << Sep, file >>

LocalList(expected, dir) ==
    [i \in 1..Len(expected) |-> << expected[i][1], Under(dir, expected[i][2]) >>]

\* C1: after set_offline(file_path) the JavaScript list is the 8 expected
\* (name, path) pairs and the CSS list the 6 expected pairs, in order, each
\* path being file_path joined with the file expected for the entry's name,
\* and no entry is a remote URL.
C1_SetOfflineExpectedLists ==
    AfterCall("set_offline") =>
        /\ default_js = LocalList(ExpectedJsFiles, Last.arg)
        /\ default_css = LocalList(ExpectedCssFiles, Last.arg)
        /\ \A i \in 1..Len(default_js) : ~IsRemoteURL(default_js[i][2])
        /\ \A i \in 1..Len(default_css) : ~IsRemoteURL(default_css[i][2])

\* C2: after set_online(file_path), whatever calls came before, every entry
\* of both lists is a remote URL, except the "mbtiles" JavaScript entry, which
\* is file_path joined with Leaflet.TileLayer.MBTiles.js.
C2_SetOnlineAllRemote ==
    AfterCall("set_online") =>
        /\ \A i \in 1..Len(default_js) :
              IF default_js[i][1] = "mbtiles"
                THEN default_js[i][2] = Under(Last.arg, "Leaflet.TileLayer.MBTiles.js")
                ELSE IsRemoteURL(default_js[i][2])
        /\ \A i \in 1..Len(default_css) : IsRemoteURL(default_css[i][2])

\* Tile layers to render the template for.
SampleLayers ==
    { [ name |-> "tile_layer_1",
        tiles |-> << "data", Sep, "tiles", Sep >> \o ts,
        options |-> [attribution |-> attr, minZoom |-> MinZoom, maxZoom |-> MaxZoom],
        parent |-> "map_1" ] : ts \in TileSets }

\* C3: after set_mbtiles() the tile layer's template renders, for a layer
\* attached to a map, as a call of L.tileLayer.mbTiles (not L.tileLayer) with
\* the layer's tiles and options, added to the parent map.
C3_MbtilesTemplateRenders ==
    AfterCall("set_mbtiles") =>
        \A layer \in SampleLayers :
            /\ Render(template, layer) =
                  << "var ", layer.name, " = ", "L.tileLayer.mbTiles", "(" >>
                  \o ToJsonString(layer.tiles) \o << "," >>
                  \o ToJsonOptions(layer.options)
                  \o << ")", ".addTo(", layer.parent, ");" >>
            /\ ~Contains(Render(template, layer), << "L.tileLayer" >>)

\* set_mbtiles has returned after other setters had changed the state.
C3_Witness ==
    /\ AfterCall("set_mbtiles")
    /\ Len(trace) = 3
    /\ trace[1].op = "set_mbtiles"
    /\ trace[2].op = "set_online"

\* C4: when main() has run to completion there is exactly one output file,
\* index.html; it contains the tile path (data directory, 'tiles' and the
\* tile-set name joined) and the attribution string, and the map was built
\* with centre [33.718651, -116.218178] and zoom bounds 0 and 16.
C4_MainWritesIndexHtml ==
    (prog = "main" /\ pc = "done") =>
        /\ DOMAIN files = {"index.html"}
        /\ Contains(files["index.html"], << "data", Sep, "tiles", Sep >> \o tile_set)
        /\ Contains(files["index.html"], << "e.g. OpenStreetMap contributors" >>)
        /\ m.location = << 33718651, -116218178 >>
        /\ m.layer.options.minZoom = 0
        /\ m.layer.options.maxZoom = 16

C4_Witness ==
    /\ prog = "main" /\ pc = "done"
    /\ tile_set = << "tiles", Sep, "{z}", Sep, "{x}", Sep, "{y}.png" >>
    /\ "index.html" \in DOMAIN files

\* C5: a call of set_offline or set_online leaves both lists depending only
\* on the function and its argument: they are the lists the same call leaves
\* when it is the first call made.
C5_ListsDependOnLastCallOnly ==
    /\ AfterCall("set_offline") =>
          /\ default_js = OfflineJs(Last.arg)
          /\ default_css = OfflineCss(Last.arg)
    /\ AfterCall("set_online") =>
          /\ default_js = OnlineJs(Last.arg)
          /\ default_css = LibraryDefaultCss

\* C6: when the packager exits non-zero or cannot be started, the packaging
\* script does not end successfully.
C6_PackagerFailurePropagates ==
    (/\ prog = "build" /\ pc = "done"
     /\ \/ returncode.kind = "raised"
        \/ returncode.kind = "returned" /\ returncode.code # 0)
    => exit_status # << 0 >>

\* C7: in a finished run of main() exactly one of set_offline / set_online
\* was called (set_offline iff offline), then set_mbtiles iff mbtiles, then
\* the map was constructed, then saved once as the last step; and the map
\* exists only once the configuration steps are over.
C7_MainCallOrder ==
    /\ (prog = "main" /\ pc = "done") =>
          trace = << Call(IF offline THEN "set_offline" ELSE "set_online", << "offline" >>) >>
                  \o (IF mbtiles THEN << Call("set_mbtiles", << >>) >> ELSE << >>)
                  \o << Call("Map", << "data", Sep, "tiles", Sep >> \o tile_set),
                        Call("save", << "index.html" >>) >>
    /\ (prog = "main" /\ m # NoMap) => pc \in {"save", "done"}

C7_Witness ==
    /\ prog = "main" /\ pc = "done"
    /\ ~offline /\ ~mbtiles
    /\ Len(trace) = 3

\* C8: set_mbtiles leaves both asset lists unchanged, and set_offline and
\* set_online leave the tile-layer template unchanged.
C8_SettersFrame ==
    [][ (trace' # trace) =>
          /\ (trace'[Len(trace')].op = "set_mbtiles") =>
                (default_js' = default_js /\ default_css' = default_css)
          /\ (trace'[Len(trace')].op \in {"set_offline", "set_online"}) =>
                (template' = template) ]_vars

\* Each setter has run on a state the others had changed.
C8_Witness ==
    /\ prog = "import" /\ Len(trace) = 3
    /\ trace[1].op = "set_offline"
    /\ trace[2].op = "set_mbtiles"
    /\ trace[3].op = "set_online"
    /\ template = MbtilesTemplate
    /\ default_css = LocalList(ExpectedCssFiles, trace[1].arg)

HasMbtilesEntry(js, dir) ==
    \E i \in 1..Len(js) :
        js[i] = << "mbtiles", Under(dir, "Leaflet.TileLayer.MBTiles.js") >>

\* C9: in every run of main(), when the map is saved, if the template is the
\* L.tileLayer.mbTiles one then the JavaScript list has an "mbtiles" entry
\* pointing at Leaflet.TileLayer.MBTiles.js under the offline directory.
C9_MbtilesScriptConfiguredAtSave ==
    (prog = "main" /\ pc \in {"save", "done"} /\ template = MbtilesTemplate) =>
        HasMbtilesEntry(default_js, << "offline" >>)

C9_Witness ==
    /\ prog = "main" /\ pc = "save"
    /\ ~offline
    /\ template = MbtilesTemplate

\* The second half of C9: the same implication over every call sequence; it
\* fails after set_mbtiles() on the library's defaults.
C9_AnyCallSequence ==
    (template = MbtilesTemplate) =>
        \E i \in 1..Len(default_js) : default_js[i][1] = "mbtiles"

\* C10: once set_mbtiles() has been called the template is the
\* L.tileLayer.mbTiles template after every later sequence of setter calls.
C10_OverrideIrreversible ==
    Called("set_mbtiles") => template = MbtilesTemplate

C10_Witness ==
    /\ Len(trace) = 3
    /\ trace[1].op = "set_mbtiles"
    /\ trace[2].op = "set_offline"
    /\ trace[3].op = "set_online"
    /\ template = TileLayerTemplate("L.tileLayer.mbTiles")

====
